---- MODULE Spec2Model ----
(***************************************************************************)
(* Model of app.py (Gestor de firmas de Facturas Ingefix).                 *)
(*                                                                         *)
(* Three parts of the program are modelled:                                *)
(*   - the RUT helpers (_clean_rut, _calc_dv, _format_miles, format_rut,   *)
(*     validate_rut), as operators over strings; a string is a sequence    *)
(*     of one-character strings;                                           *)
(*   - the Streamlit script: the session state, one action per user        *)
(*     interaction, each followed by the rerun of the script;              *)
(*   - insertar_firma_y_texto_en_pdf, one action per overlay step on the   *)
(*     last page.                                                          *)
(***************************************************************************)
EXTENDS Integers, Sequences, FiniteSets, TLC

VARIABLES
    fn_in, fn_out,
    pdf_file, nombre, recinto, fecha, observacion, iniciales_firmante,
    rut_typed, ss_rut_raw, ss_rut, ss_numero_factura, numero_edited,
    signature_img, warnings, annotate_args, upload_name, outcome,
    orig, pagina, campos, firma, obs, pc, puntos, output

fn_vars == <<fn_in, fn_out>>
ui_vars == <<pdf_file, nombre, recinto, fecha, observacion, iniciales_firmante,
             rut_typed, ss_rut_raw, ss_rut, ss_numero_factura, numero_edited,
             signature_img, warnings, annotate_args, upload_name, outcome>>
pdf_vars == <<orig, pagina, campos, firma, obs, pc, puntos, output>>
vars == <<fn_vars, ui_vars, pdf_vars>>

-----------------------------------------------------------------------------
(* Bounds of the input families.                                           *)

MaxRawLen == 4
ShortLen == 2
MaxBodyLen == 7

-----------------------------------------------------------------------------
(* Characters and strings.                                                 *)

DigitSeq == <<"0", "1", "2", "3", "4", "5", "6", "7", "8", "9">>
Digits == {DigitSeq[i] : i \in 1..Len(DigitSeq)}

\* int(d) of a one-character string; a non-digit raises ValueError.
int(d) == (CHOOSE i \in 1..Len(DigitSeq) : DigitSeq[i] = d) - 1

\* str(r) of an integer 0..9.
str(r) == DigitSeq[r + 1]

\* str.isdigit(): non-empty and every character a decimal digit.
isdigit(s) == Len(s) > 0 /\ \A i \in 1..Len(s) : s[i] \in Digits

\* str.lower() on the characters _clean_rut keeps.
lower(c) == IF c = "K" THEN "k" ELSE c

StringsUpTo(chars, n) == UNION {[1..m -> chars] : m \in 0..n}

IsPrefix(s, t) == Len(s) <= Len(t) /\ SubSeq(t, 1, Len(s)) = s

RECURSIVE join(_, _)
join(sep, partes) ==
    IF partes = <<>> THEN <<>>
    ELSE IF Len(partes) = 1 THEN partes[1]
    ELSE partes[1] \o <<sep>> \o join(sep, Tail(partes))

-----------------------------------------------------------------------------
(* RUT helpers.                                                            *)

\* Variant of _clean_rut whose pattern also keeps the '.' separator.
_clean_rut_keeps_dots(rut) ==
    LET kept == SelectSeq(rut, LAMBDA c : c \in Digits \cup {"k", "K", "."})
    IN  [i \in 1..Len(kept) |-> lower(kept[i])]

\* re.sub(r"[^0-9kK]", "", rut).lower()
_clean_rut(rut) ==
    LET kept == SelectSeq(rut, LAMBDA c : c \in Digits \cup {"k", "K"})
    IN  [i \in 1..Len(kept) |-> lower(kept[i])]

\* The loop of _calc_dv over reversed(num): s and mult after the digits
\* num[1..n] have been left to process.
RECURSIVE dv_loop(_, _, _, _)
dv_loop(num, n, s, mult) ==
    IF n = 0 THEN s
    ELSE dv_loop(num, n - 1, s + int(num[n]) * mult,
                 IF mult = 7 THEN 2 ELSE mult + 1)

\* Variant of the loop that restarts the weight after 6 instead of 7.
RECURSIVE dv_loop_short_cycle(_, _, _, _)
dv_loop_short_cycle(num, n, s, mult) ==
    IF n = 0 THEN s
    ELSE dv_loop_short_cycle(num, n - 1, s + int(num[n]) * mult,
                             IF mult = 6 THEN 2 ELSE mult + 1)

_calc_dv_short_cycle(num) ==
    IF \E i \in 1..Len(num) : num[i] \notin Digits THEN "ValueError"
    ELSE LET r == 11 - (dv_loop_short_cycle(num, Len(num), 0, 2) % 11)
         IN  IF r = 11 THEN "0" ELSE IF r = 10 THEN "k" ELSE str(r)

\* _calc_dv: int(d) raises ValueError on a character that is not a digit.
_calc_dv(num) ==
    IF \E i \in 1..Len(num) : num[i] \notin Digits THEN "ValueError"
    ELSE LET r == 11 - (dv_loop(num, Len(num), 0, 2) % 11)
         IN  IF r = 11 THEN "0" ELSE IF r = 10 THEN "k" ELSE str(r)

\* The while loop of _format_miles and the trailing "if cuerpo".
RECURSIVE miles_loop(_, _)
miles_loop(cuerpo, partes) ==
    IF Len(cuerpo) > 3
    THEN miles_loop(SubSeq(cuerpo, 1, Len(cuerpo) - 3),
                    <<SubSeq(cuerpo, Len(cuerpo) - 2, Len(cuerpo))>> \o partes)
    ELSE IF cuerpo # <<>> THEN <<cuerpo>> \o partes ELSE partes

\* Variant of the loop that cuts the groups of three from the left
\* (cuerpo[:3] / cuerpo[3:]).
RECURSIVE miles_loop_left(_, _)
miles_loop_left(cuerpo, partes) ==
    IF Len(cuerpo) > 3
    THEN miles_loop_left(SubSeq(cuerpo, 4, Len(cuerpo)),
                         partes \o <<SubSeq(cuerpo, 1, 3)>>)
    ELSE IF cuerpo # <<>> THEN partes \o <<cuerpo>> ELSE partes

_format_miles_left(cuerpo) ==
    IF cuerpo = <<>> THEN <<>> ELSE join(".", miles_loop_left(cuerpo, <<>>))

\* Variant of the loop that forgets the leading group ("if cuerpo" missing).
RECURSIVE miles_loop_drop(_, _)
miles_loop_drop(cuerpo, partes) ==
    IF Len(cuerpo) > 3
    THEN miles_loop_drop(SubSeq(cuerpo, 1, Len(cuerpo) - 3),
                         <<SubSeq(cuerpo, Len(cuerpo) - 2, Len(cuerpo))>> \o partes)
    ELSE partes

_format_miles_drop(cuerpo) ==
    IF cuerpo = <<>> THEN <<>> ELSE join(".", miles_loop_drop(cuerpo, <<>>))

_format_miles(cuerpo) ==
    IF cuerpo = <<>> THEN <<>> ELSE join(".", miles_loop(cuerpo, <<>>))

format_rut(raw) ==
    LET rut == _clean_rut(raw)
    IN  IF rut = <<>> THEN <<>>
        ELSE IF Len(rut) = 1 THEN rut
        ELSE LET cuerpo == SubSeq(rut, 1, Len(rut) - 1)
                 dv == rut[Len(rut)]
             IN  IF ~isdigit(cuerpo) THEN rut
                 ELSE _format_miles(cuerpo) \o <<"-">> \o <<dv>>

\* Variant of validate_rut without the length / isdigit guard.
validate_rut_unguarded(raw) ==
    LET rut == _clean_rut(raw)
    IN  rut # <<>> /\ _calc_dv(SubSeq(rut, 1, Len(rut) - 1)) = rut[Len(rut)]

validate_rut(raw) ==
    LET rut == _clean_rut(raw)
    IN  IF Len(rut) < 2 \/ ~isdigit(SubSeq(rut, 1, Len(rut) - 1)) THEN FALSE
        ELSE _calc_dv(SubSeq(rut, 1, Len(rut) - 1)) = rut[Len(rut)]

-----------------------------------------------------------------------------
(* Inputs of the RUT helpers.                                              *)

RawChars == {"0", "6", "k", "K", ".", "-", " "}
FewDigits == {"0", "1", "9"}

Bodies == StringsUpTo(Digits, ShortLen) \cup StringsUpTo(FewDigits, MaxBodyLen)
ValidPairs == {Append(b, _calc_dv(b)) : b \in Bodies}
KnownVectors ==
    { <<"1","2","3","4","5","6","7","8","5">>,
      <<"1","2","3","4","5","6","7","8","-","5">>,
      <<"1","2","3","4","5","6","7","8","-","4">>,
      <<"1","2",".","3","4","5",".","6","7","8","-","5">> }

RawInputs ==
    StringsUpTo(RawChars, MaxRawLen) \cup Bodies \cup ValidPairs
        \cup {format_rut(p) : p \in ValidPairs}
        \cup {Append(b, "K") : b \in StringsUpTo(FewDigits, ShortLen + 2)}
        \cup KnownVectors

NoCall == [op |-> "none", val |-> <<>>]

-----------------------------------------------------------------------------
(* Idle values of the parts a specification does not exercise.             *)

NoFile == [present |-> FALSE, pages |-> <<>>]
NoKey == <<"<no key>">>
NoEdit == "<no edit>"
Today == "03-11-2026"

UiInit ==
    /\ pdf_file = NoFile
    /\ nombre = ""
    /\ recinto = ""
    /\ fecha = Today
    /\ observacion = ""
    /\ iniciales_firmante = "FVM"
    /\ rut_typed = <<>>
    /\ ss_rut_raw = <<>>
    /\ ss_rut = NoKey
    /\ ss_numero_factura = ""
    /\ numero_edited = NoEdit
    /\ signature_img = FALSE
    /\ warnings = <<>>
    /\ annotate_args = <<>>
    /\ upload_name = <<>>
    /\ outcome = "idle"

PdfIdle ==
    /\ orig = <<>>
    /\ pagina = <<>>
    /\ campos = <<>>
    /\ firma = <<>>
    /\ obs = <<>>
    /\ pc = -1
    /\ puntos = <<>>
    /\ output = <<>>

FnIdle ==
    /\ fn_in = <<>>
    /\ fn_out = NoCall

-----------------------------------------------------------------------------
(* The RUT helpers applied to an input.                                    *)

FnInit ==
    /\ fn_in \in RawInputs
    /\ fn_out = NoCall
    /\ UiInit
    /\ PdfIdle

CallClean ==
    /\ fn_out = NoCall
    /\ fn_out' = [op |-> "_clean_rut", val |-> _clean_rut(fn_in)]
    /\ UNCHANGED <<fn_in, ui_vars, pdf_vars>>

CallCalcDv ==
    /\ fn_out = NoCall
    /\ fn_out' = [op |-> "_calc_dv", val |-> _calc_dv(fn_in)]
    /\ UNCHANGED <<fn_in, ui_vars, pdf_vars>>

CallFormat ==
    /\ fn_out = NoCall
    /\ fn_out' = [op |-> "format_rut", val |-> format_rut(fn_in)]
    /\ UNCHANGED <<fn_in, ui_vars, pdf_vars>>

CallValidate ==
    /\ fn_out = NoCall
    /\ fn_out' = [op |-> "validate_rut", val |-> validate_rut(fn_in)]
    /\ UNCHANGED <<fn_in, ui_vars, pdf_vars>>

FnNext == CallClean \/ CallCalcDv \/ CallFormat \/ CallValidate

SpecRut == FnInit /\ [][FnNext]_vars

-----------------------------------------------------------------------------
(* The Streamlit script: session state and widgets.                        *)
(*                                                                         *)
(* Every user interaction stores the widget's new value in the session     *)
(* state, runs the widget's callback, and reruns the script from the top.  *)
(* An action below is one interaction together with that rerun.            *)

MaxTypedLen == 5

\* Text of the pages of the uploaded invoices, as words.
Marcadores == {"Nº", "N°", "No", "N.o", "Nro", "Nro."}
Numeros == {"123456", "654321"}
PdfFiles ==
    { [present |-> TRUE, pages |-> << <<"Total", "1234">> >>],
      [present |-> TRUE, pages |-> << <<"Factura", "Nº", "123456">> >>],
      [present |-> TRUE,
       pages |-> << <<"Total">>, <<"Nro.", "654321", "Nº", "123456">> >>] }

TextInputs == {"", "x"}
Fechas == {Today, "04-11-2026"}
Iniciales == {"FVM", "JSC"}
NumeroInputs == {"", "123456", "999999"}
FormRuts ==
    { <<>>, <<"6", "k">>, <<"6", "-", "K">>, <<"6", "0">>, <<"0">>,
      <<"1","2","3","4","5","6","7","8","5">> }
TypeChars == {"1", "6", "K", "-", "x"}

None == "None"

\* patron.search(texto): the first marker followed by a run of 5 to 8
\* digits; the words of Numeros are such runs.
patron_search(texto) ==
    LET hits == {i \in 1..(Len(texto) - 1) :
                    texto[i] \in Marcadores /\ texto[i + 1] \in Numeros}
    IN  IF hits = {} THEN None
        ELSE texto[(CHOOSE i \in hits : \A j \in hits : i <= j) + 1]

\* extraer_numero_factura: the match of the first page that has one.
extraer_numero_factura(pdf) ==
    LET hits == {n \in 1..Len(pdf.pages) : patron_search(pdf.pages[n]) # None}
    IN  IF hits = {} THEN None
        ELSE patron_search(pdf.pages[CHOOSE n \in hits : \A m \in hits : n <= m])

\* Lines 118-123 of a script run: the number detected in the uploaded PDF
\* is stored under numero_factura before the input is created.
numero_after_run(file, numero) ==
    IF file.present /\ extraer_numero_factura(file) # None
    THEN extraer_numero_factura(file)
    ELSE numero

\* Variant of rut_on_change that does not write the formatted text back to
\* the widget's key.
rut_on_change_no_writeback(raw) ==
    [rut |-> format_rut(raw), rut_raw |-> raw]

\* rut_on_change: the session state keys it sets, from the value of rut_raw.
rut_on_change(raw) ==
    [rut |-> format_rut(raw), rut_raw |-> format_rut(raw)]

\* Line 90: rut = session_state.get("rut", session_state.get("rut_raw", "")).
rut_of(rut_key, rut_raw_key) == IF rut_key # NoKey THEN rut_key ELSE rut_raw_key

\* Lines 93-94: the caption under the RUT input.
RutCaption ==
    LET rut == rut_of(ss_rut, ss_rut_raw)
    IN  rut # <<>> /\ ~validate_rut(rut)

\* Variant of the validations that omits the validate_rut branch.
validaciones_no_rut_check(sig, nom, rec, fec, rut, numero) ==
    IF ~sig THEN "firma"
    ELSE IF ~(nom # "" /\ rec # "" /\ fec # None /\ rut # <<>> /\ numero # "")
    THEN "campos"
    ELSE "ok"

\* Lines 297-303: the validations of the 'Firmar Factura' handler.
validaciones(sig, nom, rec, fec, rut, numero) ==
    IF ~sig THEN "firma"
    ELSE IF ~(nom # "" /\ rec # "" /\ fec # None /\ rut # <<>> /\ numero # "")
    THEN "campos"
    ELSE IF ~validate_rut(rut) THEN "rut"
    ELSE "ok"

\* A script run in which the button is not pressed shows no result.
NoResult ==
    /\ warnings' = <<>>
    /\ annotate_args' = <<>>
    /\ upload_name' = <<>>
    /\ outcome' = "idle"

UploadPdf(f) ==
    /\ f # pdf_file
    /\ pdf_file' = f
    /\ ss_numero_factura' = numero_after_run(f, ss_numero_factura)
    /\ numero_edited' = NoEdit
    /\ NoResult
    /\ UNCHANGED <<nombre, recinto, fecha, observacion, iniciales_firmante,
                   rut_typed, ss_rut_raw, ss_rut, signature_img>>
    /\ UNCHANGED <<fn_vars, pdf_vars>>

RemovePdf ==
    /\ pdf_file.present
    /\ pdf_file' = NoFile
    /\ ss_numero_factura' = numero_after_run(NoFile, ss_numero_factura)
    /\ numero_edited' = NoEdit
    /\ NoResult
    /\ UNCHANGED <<nombre, recinto, fecha, observacion, iniciales_firmante,
                   rut_typed, ss_rut_raw, ss_rut, signature_img>>
    /\ UNCHANGED <<fn_vars, pdf_vars>>

\* The part of a rerun shared by the interactions that follow.
Rerun ==
    /\ ss_numero_factura' = numero_after_run(pdf_file, ss_numero_factura)
    /\ NoResult
    /\ UNCHANGED <<pdf_file, numero_edited>>
    /\ UNCHANGED <<fn_vars, pdf_vars>>

EditNombre(v) ==
    /\ v # nombre
    /\ nombre' = v
    /\ Rerun
    /\ UNCHANGED <<recinto, fecha, observacion, iniciales_firmante,
                   rut_typed, ss_rut_raw, ss_rut, signature_img>>

EditRecinto(v) ==
    /\ v # recinto
    /\ recinto' = v
    /\ Rerun
    /\ UNCHANGED <<nombre, fecha, observacion, iniciales_firmante,
                   rut_typed, ss_rut_raw, ss_rut, signature_img>>

EditFecha(v) ==
    /\ v # fecha
    /\ fecha' = v
    /\ Rerun
    /\ UNCHANGED <<nombre, recinto, observacion, iniciales_firmante,
                   rut_typed, ss_rut_raw, ss_rut, signature_img>>

EditObservacion(v) ==
    /\ v # observacion
    /\ observacion' = v
    /\ Rerun
    /\ UNCHANGED <<nombre, recinto, fecha, iniciales_firmante,
                   rut_typed, ss_rut_raw, ss_rut, signature_img>>

SelectIniciales(v) ==
    /\ v # iniciales_firmante
    /\ iniciales_firmante' = v
    /\ Rerun
    /\ UNCHANGED <<nombre, recinto, fecha, observacion,
                   rut_typed, ss_rut_raw, ss_rut, signature_img>>

\* The canvas component reports its image data.
DrawSignature ==
    /\ ~signature_img
    /\ signature_img' = TRUE
    /\ Rerun
    /\ UNCHANGED <<nombre, recinto, fecha, observacion, iniciales_firmante,
                   rut_typed, ss_rut_raw, ss_rut>>

\* A change event of the RUT input: the widget's key holds the typed text
\* when rut_on_change runs.
EditRut(text) ==
    /\ text # ss_rut_raw
    /\ rut_typed' = text
    /\ ss_rut' = rut_on_change(text).rut
    /\ ss_rut_raw' = rut_on_change(text).rut_raw
    /\ Rerun
    /\ UNCHANGED <<nombre, recinto, fecha, observacion, iniciales_firmante,
                   signature_img>>

\* A change event of the 'Número de la Factura' input, then the rerun.
EditNumero(v) ==
    /\ v # ss_numero_factura
    /\ numero_edited' = v
    /\ ss_numero_factura' = numero_after_run(pdf_file, v)
    /\ NoResult
    /\ UNCHANGED <<pdf_file, nombre, recinto, fecha, observacion,
                   iniciales_firmante, rut_typed, ss_rut_raw, ss_rut,
                   signature_img>>
    /\ UNCHANGED <<fn_vars, pdf_vars>>

\* The 'Firmar Factura' button: the rerun in which st.button returns True.
\* Without an uploaded file pdf_bytes is None and the annotation raises on
\* doc[-1] of an empty document, before the upload.
ClickFirmar ==
    LET rut == rut_of(ss_rut, ss_rut_raw)
        numero == numero_after_run(pdf_file, ss_numero_factura)
        v == validaciones(signature_img, nombre, recinto, fecha, rut, numero)
    IN  /\ ss_numero_factura' = numero
        /\ IF v # "ok"
           THEN /\ warnings' = <<v>>
                /\ annotate_args' = <<>>
                /\ upload_name' = <<>>
                /\ outcome' = "warned"
           ELSE /\ warnings' = <<>>
                /\ annotate_args' =
                       << [pdf_bytes |-> pdf_file, nombre |-> nombre,
                           recinto |-> recinto, fecha_str |-> fecha,
                           rut |-> rut, observacion |-> observacion] >>
                /\ IF pdf_file.present
                   THEN /\ upload_name' =
                               << [numero |-> numero,
                                   iniciales |-> iniciales_firmante] >>
                        /\ outcome' = "signed"
                   ELSE /\ upload_name' = <<>>
                        /\ outcome' = "exception"
        /\ UNCHANGED <<pdf_file, nombre, recinto, fecha, observacion,
                       iniciales_firmante, rut_typed, ss_rut_raw, ss_rut,
                       numero_edited, signature_img>>
        /\ UNCHANGED <<fn_vars, pdf_vars>>

FormInit == FnIdle /\ UiInit /\ PdfIdle

FormNext ==
    \/ \E f \in PdfFiles : UploadPdf(f)
    \/ RemovePdf
    \/ \E v \in TextInputs : EditNombre(v)
    \/ \E v \in TextInputs : EditRecinto(v)
    \/ \E v \in Fechas : EditFecha(v)
    \/ \E v \in TextInputs : EditObservacion(v)
    \/ \E v \in Iniciales : SelectIniciales(v)
    \/ DrawSignature
    \/ \E t \in FormRuts : EditRut(t)
    \/ \E v \in NumeroInputs : EditNumero(v)
    \/ ClickFirmar

SpecForm == FormInit /\ [][FormNext]_vars

\* The texts a user can leave in the RUT input from the displayed one: one
\* more character, one character less, or a pasted RUT.
TypedTexts(shown) ==
    {t \in {Append(shown, c) : c \in TypeChars} \cup KnownVectors
           \cup (IF shown = <<>> THEN {} ELSE {SubSeq(shown, 1, Len(shown) - 1)}) :
        Len(_clean_rut(t)) <= MaxTypedLen \/ t \in KnownVectors}

WidgetNext == \E t \in TypedTexts(ss_rut_raw) : EditRut(t)

SpecWidget == FormInit /\ [][WidgetNext]_vars

-----------------------------------------------------------------------------
(* insertar_firma_y_texto_en_pdf on the last page of the document.         *)
(*                                                                         *)
(* A page is the sequence of its content items in content order.  A text   *)
(* item is a run of words starting at x0, each word WordWidth wide, its    *)
(* top at y0 and its bottom at y1.  Text is a sequence of words; the word  *)
(* " " is white space.  search_for sees the items added earlier in the     *)
(* same call, after those of the original page.                            *)

WordWidth == 40
LineHeight == 12
PageWidth == 612
LabelWidth == 64

firma_width == 120
ancho_campo == 280
alto_campo == 45
espacio == 10

NoPoint == <<>>
FieldLabels == {"Nombre:", "Recinto:", "RUT:", "Fecha:"}

TextItem(words, x0, y0, y1, fontsize) ==
    [kind |-> "text", words |-> words, x0 |-> x0, y0 |-> y0,
     x1 |-> x0 + Len(words) * WordWidth, y1 |-> y1, fontsize |-> fontsize]

LabelRun(label, x0, y0) == TextItem(<<label>>, x0, y0, y0 + LineHeight, 11)

\* The label runs an invoice page may hold, in content order; the issuer's
\* "RUT:" in the header comes before the customer's.
AllRuns ==
    << LabelRun("RUT:", 400, 50),
       LabelRun("Nombre:", 50, 600),
       LabelRun("Recinto:", 50, 620),
       LabelRun("RUT:", 50, 640),
       LabelRun("Fecha:", 50, 660),
       LabelRun("Firma", 300, 700),
       LabelRun("CEDIBLE", 250, 740) >>

OrigPages ==
    {LET keep == SelectSeq([i \in 1..Len(AllRuns) |-> i], LAMBDA i : i \in S)
     IN  [k \in 1..Len(keep) |-> AllRuns[keep[k]]] : S \in SUBSET (1..Len(AllRuns))}

NombreTexts == { <<>>, <<"Juan">>, <<"RUT:", "Juan">>, <<"firma", "CEDIBLE">> }
RecintoTexts == { <<>>, <<"Av", "1">>, <<"Fecha:", "Av">> }
RutTexts == { <<>>, <<"6-k">> }
FechaTexts == { <<>>, <<"03-11-2026">> }
ObsTexts == { <<>>, <<" ">>, <<" ", "nota", " ">> }
FirmaImages == { [w |-> 450, h |-> 180] }

\* Upper and lower case are not told apart by the page search.
casefold(w) == IF w = "firma" THEN "Firma" ELSE w

\* The boxes of the occurrences of a word in one text item.
RECURSIVE hits_in(_, _, _)
hits_in(item, etiqueta, i) ==
    IF i > Len(item.words) THEN <<>>
    ELSE (IF casefold(item.words[i]) = casefold(etiqueta)
          THEN << [x0 |-> item.x0 + (i - 1) * WordWidth,
                   y0 |-> item.y0,
                   x1 |-> item.x0 + i * WordWidth,
                   y1 |-> item.y1] >>
          ELSE <<>>) \o hits_in(item, etiqueta, i + 1)

\* pagina.search_for(etiqueta): the boxes of every occurrence, in content
\* order.
RECURSIVE search_for(_, _)
search_for(pag, etiqueta) ==
    IF pag = <<>> THEN <<>>
    ELSE (IF pag[1].kind = "text" THEN hits_in(pag[1], etiqueta, 1) ELSE <<>>)
             \o search_for(Tail(pag), etiqueta)

\* str.strip() on a text.
RECURSIVE strip(_)
strip(t) ==
    IF t = <<>> THEN <<>>
    ELSE IF t[1] = " " THEN strip(Tail(t))
    ELSE IF t[Len(t)] = " " THEN strip(SubSeq(t, 1, Len(t) - 1))
    ELSE t

\* Variant of insertar_dato_campo that tests only "if resultados".
insertar_dato_campo_no_text_check(pag, etiqueta, texto, offset_x, offset_y) ==
    LET resultados == search_for(pag, etiqueta)
    IN  IF resultados # <<>>
        THEN LET box == resultados[1]
                 x == box.x1 + offset_x
                 y == box.y0 + offset_y
             IN  [pagina |-> Append(pag, TextItem(texto, x, y - 11, y, 11)),
                  punto |-> <<x, y>>]
        ELSE [pagina |-> pag, punto |-> NoPoint]

\* insertar_dato_campo: the page after the call and the insertion point it
\* used; insert_text puts the baseline of the text at (x, y).
insertar_dato_campo(pag, etiqueta, texto, offset_x, offset_y) ==
    LET resultados == search_for(pag, etiqueta)
    IN  IF resultados # <<>> /\ texto # <<>>
        THEN LET box == resultados[1]
                 x == box.x1 + offset_x
                 y == box.y0 + offset_y
             IN  [pagina |-> Append(pag, TextItem(texto, x, y - 11, y, 11)),
                  punto |-> <<x, y>>]
        ELSE [pagina |-> pag, punto |-> NoPoint]

\* Lines 180-193: the signature image above the "Firma" label.
insertar_firma(pag, firma_img) ==
    LET firma_box == search_for(pag, "Firma")
    IN  IF firma_box # <<>>
        THEN LET rect == firma_box[1]
                 x == rect.x0 + 10
                 y == rect.y0 - 20
                 h_escala == (firma_img.h * firma_width) \div firma_img.w
             IN  Append(pag, [kind |-> "image", x0 |-> x, y0 |-> y,
                              x1 |-> x + firma_width, y1 |-> y + h_escala])
        ELSE pag

\* Lines 196-230: the label, the rectangle and the text box under "CEDIBLE".
insertar_observacion(pag, observacion_txt) ==
    LET cedible_box == search_for(pag, "CEDIBLE")
    IN  IF cedible_box # <<>> /\ strip(observacion_txt) # <<>>
        THEN LET cbox == cedible_box[1]
                 y_obs == cbox.y1 + 10
                 total_ancho == LabelWidth + espacio + ancho_campo
                 x_inicio == (PageWidth - total_ancho) \div 2
                 rx0 == x_inicio + LabelWidth + espacio
             IN  pag \o
                 << [kind |-> "text", words |-> <<"Observación:">>,
                     x0 |-> x_inicio, y0 |-> y_obs + 5 - 11,
                     x1 |-> x_inicio + LabelWidth, y1 |-> y_obs + 5,
                     fontsize |-> 11],
                    [kind |-> "rect", x0 |-> rx0, y0 |-> y_obs,
                     x1 |-> rx0 + ancho_campo, y1 |-> y_obs + alto_campo],
                    [kind |-> "textbox", words |-> strip(observacion_txt),
                     x0 |-> rx0, y0 |-> y_obs,
                     x1 |-> rx0 + ancho_campo, y1 |-> y_obs + alto_campo,
                     fontsize |-> 10] >>
        ELSE pag

PdfInit ==
    /\ FnIdle
    /\ UiInit
    /\ orig \in OrigPages
    /\ pagina = orig
    /\ campos \in [nombre : NombreTexts, recinto : RecintoTexts,
                   rut : RutTexts, fecha_str : FechaTexts]
    /\ firma \in FirmaImages
    /\ obs \in ObsTexts
    /\ pc = 0
    /\ puntos = [l \in FieldLabels |-> NoPoint]
    /\ output = <<>>

Campo(step, etiqueta, texto, offset_x, offset_y) ==
    LET r == insertar_dato_campo(pagina, etiqueta, texto, offset_x, offset_y)
    IN  /\ pc = step
        /\ pagina' = r.pagina
        /\ puntos' = [puntos EXCEPT ![etiqueta] = r.punto]
        /\ pc' = step + 1
        /\ UNCHANGED <<orig, campos, firma, obs, output>>
        /\ UNCHANGED <<fn_vars, ui_vars>>

CampoNombre == Campo(0, "Nombre:", campos.nombre, 15, 4)
CampoRecinto == Campo(1, "Recinto:", campos.recinto, 15, 7)
CampoRut == Campo(2, "RUT:", campos.rut, 5, 4)
CampoFecha == Campo(3, "Fecha:", campos.fecha_str, 20, 8)

Firma ==
    /\ pc = 4
    /\ pagina' = insertar_firma(pagina, firma)
    /\ pc' = 5
    /\ UNCHANGED <<orig, campos, firma, obs, puntos, output>>
    /\ UNCHANGED <<fn_vars, ui_vars>>

Observacion ==
    /\ pc = 5
    /\ pagina' = insertar_observacion(pagina, obs)
    /\ pc' = 6
    /\ UNCHANGED <<orig, campos, firma, obs, puntos, output>>
    /\ UNCHANGED <<fn_vars, ui_vars>>

\* Lines 233-237: doc.save(output); return output.
Salida ==
    /\ pc = 6
    /\ output' = <<pagina>>
    /\ pc' = 7
    /\ UNCHANGED <<orig, pagina, campos, firma, obs, puntos>>
    /\ UNCHANGED <<fn_vars, ui_vars>>

PdfNext ==
    \/ CampoNombre
    \/ CampoRecinto
    \/ CampoRut
    \/ CampoFecha
    \/ Firma
    \/ Observacion
    \/ Salida

SpecPdf == PdfInit /\ [][PdfNext]_vars

-----------------------------------------------------------------------------
(* Properties of the RUT helpers.                                          *)

AllDigits(s) == \A i \in 1..Len(s) : s[i] \in Digits
Body(c) == SubSeq(c, 1, Len(c) - 1)
Last(c) == c[Len(c)]

\* clean(raw) ends in compute_check_digit(clean(raw)[:-1]).
EndsInCheckDigit(raw) ==
    LET c == _clean_rut(raw)
    IN  c # <<>> /\ Last(c) = _calc_dv(Body(c))

\* C1 as stated: for every raw string, validate(raw) is true if and only if
\* clean(raw) ends in compute_check_digit(clean(raw)[:-1]), also when the
\* cleaned form has fewer than 2 characters.
C1_ValidateIffEndsInCheckDigit ==
    fn_out.op = "validate_rut" =>
        /\ fn_out.val \in BOOLEAN
        /\ fn_out.val <=> EndsInCheckDigit(fn_in)

\* C1 amended: validate(raw) returns a boolean, and it is true if and only
\* if clean(raw) has at least 2 characters, all characters but the last are
\* decimal digits, and the last one is compute_check_digit of the others;
\* for every other raw string it is false.
C1_ValidateIffWellFormedAndChecked ==
    fn_out.op = "validate_rut" =>
        /\ fn_out.val \in BOOLEAN
        /\ fn_out.val <=>
              LET c == _clean_rut(fn_in)
              IN  /\ Len(c) >= 2
                  /\ AllDigits(Body(c))
                  /\ Last(c) = _calc_dv(Body(c))

\* validate has accepted "6-K"-like input: separators and an upper-case K.
C1_Witness ==
    /\ fn_out.op = "validate_rut"
    /\ fn_out.val = TRUE
    /\ _clean_rut(fn_in) = <<"6", "k">>
    /\ "K" \in {fn_in[i] : i \in 1..Len(fn_in)}

\* Reference check digit: the i-th digit from the right has weight
\* 2 + ((i - 1) mod 6).
RECURSIVE RefSum(_, _)
RefSum(body, i) ==
    IF i > Len(body) THEN 0
    ELSE int(body[Len(body) - i + 1]) * (2 + ((i - 1) % 6)) + RefSum(body, i + 1)

RefCheckDigit(body) ==
    LET r == 11 - (RefSum(body, 1) % 11)
    IN  CASE r = 11 -> "0"
          [] r = 10 -> "k"
          [] OTHER -> str(r)

\* C2: for every string of decimal digits, compute_check_digit is a single
\* character in {0-9, k} and equals the reference value (weights cycling
\* 2..7 from the right, 11 - (s mod 11), 11 -> "0", 10 -> "k").
C2_CheckDigitIsReference ==
    (fn_out.op = "_calc_dv" /\ AllDigits(fn_in)) =>
        /\ fn_out.val \in Digits \cup {"k"}
        /\ fn_out.val = RefCheckDigit(fn_in)

\* A body long enough for the weights to restart, with check digit k.
C2_Witness ==
    /\ fn_out.op = "_calc_dv"
    /\ AllDigits(fn_in)
    /\ Len(fn_in) >= 7
    /\ fn_in[1] # "0"
    /\ fn_out.val = "k"

\* Reference grouping: the i-th digit of a body of n digits is followed by
\* '.' exactly when i < n and n - i is a multiple of 3.
RECURSIVE RefDots(_, _)
RefDots(body, i) ==
    IF i > Len(body) THEN <<>>
    ELSE (IF i < Len(body) /\ (Len(body) - i) % 3 = 0
          THEN <<body[i], ".">> ELSE <<body[i]>>) \o RefDots(body, i + 1)

\* C3: format returns the cleaned value unchanged when it has fewer than 2
\* characters or its body is not purely numeric; otherwise the body with a
\* '.' every 3 digits from the right, '-' and the last character, with no
\* leading or doubled separator.
C3_FormatShape ==
    fn_out.op = "format_rut" =>
        LET c == _clean_rut(fn_in)
            v == fn_out.val
        IN  IF Len(c) < 2 \/ ~AllDigits(Body(c))
            THEN v = c
            ELSE /\ v = RefDots(Body(c), 1) \o <<"-", Last(c)>>
                 /\ v[1] # "."
                 /\ \A i \in 1..(Len(v) - 1) : ~(v[i] = "." /\ v[i + 1] = ".")

\* The known vector: "123456785" gives "12.345.678-5".
C3_Witness ==
    /\ fn_out.op = "format_rut"
    /\ fn_in = <<"1","2","3","4","5","6","7","8","5">>
    /\ fn_out.val = <<"1","2",".","3","4","5",".","6","7","8","-","5">>

\* C9: formatting is idempotent: format(format(raw)) = format(raw) for any
\* raw input string.
C9_FormatIdempotent ==
    fn_out.op = "format_rut" => format_rut(fn_out.val) = fn_out.val

\* A formatted value with separators, from input that was not yet formatted.
C9_Witness ==
    /\ fn_out.op = "format_rut"
    /\ fn_out.val # fn_in
    /\ \E i \in 1..Len(fn_out.val) : fn_out.val[i] = "."

\* A digit-string body followed by its check digit.
IsValidPair(s) ==
    /\ s # <<>>
    /\ AllDigits(Body(s))
    /\ Last(s) = _calc_dv(Body(s))

\* C10: for any valid body/check-digit pair,
\* clean(format(body + check_digit)) = clean(body + check_digit).
C10_RoundTrip ==
    (fn_out.op = "format_rut" /\ IsValidPair(fn_in)) =>
        _clean_rut(fn_out.val) = _clean_rut(fn_in)

\* A valid pair whose formatted value has two '.' and the check digit k.
C10_Witness ==
    /\ fn_out.op = "format_rut"
    /\ IsValidPair(fn_in)
    /\ Len(fn_in) >= 8
    /\ Last(fn_in) = "k"
    /\ Len(fn_out.val) = Len(fn_in) + 3

-----------------------------------------------------------------------------
(* Properties of the 'Firmar Factura' action and of the session state.     *)

FormComplete ==
    /\ signature_img
    /\ nombre # ""
    /\ recinto # ""
    /\ fecha # ""
    /\ rut_of(ss_rut, ss_rut_raw) # <<>>
    /\ ss_numero_factura # ""
    /\ validate_rut(rut_of(ss_rut, ss_rut_raw))

\* C4: the annotation (and the upload after it) is invoked only if a
\* signature is present, name, address, date, identity number and document
\* number are non-empty and validate(identity number) is true; otherwise the
\* action ends in a single warning, with no annotation and no upload.
C4_ValidatedBeforeAnnotation ==
    /\ (annotate_args # <<>> \/ upload_name # <<>>) => FormComplete
    /\ (outcome # "idle" /\ ~FormComplete) =>
          /\ outcome = "warned"
          /\ Len(warnings) = 1
          /\ annotate_args = <<>>
          /\ upload_name = <<>>

\* The button was pressed with everything filled in but an identity number
\* whose check digit is wrong, on an uploaded invoice.
C4_Witness ==
    /\ outcome = "warned"
    /\ pdf_file.present
    /\ signature_img
    /\ nombre # ""
    /\ recinto # ""
    /\ ss_numero_factura # ""
    /\ rut_of(ss_rut, ss_rut_raw) = <<"6", "-", "0">>
    /\ annotate_args = <<>>

\* C6: after the user edits 'Número de la Factura', across the reruns that
\* follow with the same PDF uploaded, session state numero_factura (and the
\* number in the output filename) is the edited value, not the detected one.
C6_EditedNumberKept ==
    numero_edited # NoEdit =>
        /\ ss_numero_factura = numero_edited
        /\ upload_name # <<>> => upload_name[1].numero = numero_edited

\* C7: after every change event of the identity-number input, rut_raw and
\* rut both equal format(raw) of the text entered at that event, and a
\* partial entry (one character, or a body that is not purely numeric) is
\* left as its cleaned text.
C7_ShownIsFormatOfTyped ==
    ss_rut # NoKey =>
        /\ ss_rut = format_rut(rut_typed)
        /\ ss_rut_raw = format_rut(rut_typed)
        /\ LET c == _clean_rut(rut_typed)
           IN  (Len(c) < 2 \/ ~AllDigits(Body(c))) => ss_rut_raw = c

\* A digit typed after the formatted "6-k": the body now holds a letter and
\* the entry is shown as its cleaned text.
C7_Witness ==
    /\ ss_rut # NoKey
    /\ rut_typed = <<"6", "-", "k", "1">>
    /\ ss_rut_raw = <<"6", "k", "1">>
    /\ ss_rut = <<"6", "k", "1">>

-----------------------------------------------------------------------------
(* Properties of the annotation.                                           *)

\* The condition under which the overlay step at position step modifies a
\* page: its anchor is found, and its text is not empty.
StepApplies(step, pag) ==
    CASE step = 0 -> search_for(pag, "Nombre:") # <<>> /\ campos.nombre # <<>>
      [] step = 1 -> search_for(pag, "Recinto:") # <<>> /\ campos.recinto # <<>>
      [] step = 2 -> search_for(pag, "RUT:") # <<>> /\ campos.rut # <<>>
      [] step = 3 -> search_for(pag, "Fecha:") # <<>> /\ campos.fecha_str # <<>>
      [] step = 4 -> search_for(pag, "Firma") # <<>>
      [] step = 5 -> search_for(pag, "CEDIBLE") # <<>>
                        /\ \E i \in 1..Len(obs) : obs[i] # " "
      [] OTHER -> FALSE

\* C5: each of the six overlay steps modifies the page if and only if its
\* anchor is found (and its text is non-empty; the observation non-empty
\* after trimming); a step whose condition fails leaves the page as it was,
\* the next step follows in every case, and the call returns the document.
C5_StepsSkipWithoutAbort ==
    /\ [][ /\ pc' = pc + 1
           /\ (pagina' # pagina) <=> StepApplies(pc, pagina)
           /\ IsPrefix(pagina, pagina') ]_vars
    /\ [](pc = 7 => output = <<pagina>>)

\* A call that skipped some steps (no "Nombre:" anchor, empty observation)
\* and carried out others, and returned its document.
C5_Witness ==
    /\ pc = 7
    /\ output # <<>>
    /\ search_for(orig, "Nombre:") = <<>>
    /\ campos.nombre # <<>>
    /\ puntos["Nombre:"] = NoPoint
    /\ puntos["Fecha:"] # NoPoint
    /\ search_for(orig, "CEDIBLE") # <<>>
    /\ obs = <<" ">>
    /\ Len(pagina) = Len(orig) + 2

\* The insertion point of a label on the page as it was before any write.
PointOnOriginal(etiqueta, texto, offset_x, offset_y) ==
    LET resultados == search_for(orig, etiqueta)
    IN  IF resultados # <<>> /\ texto # <<>>
        THEN <<resultados[1].x1 + offset_x, resultados[1].y0 + offset_y>>
        ELSE NoPoint

\* C8: the insertion point computed for each of "Nombre:", "Recinto:",
\* "RUT:", "Fecha:" is (x1 + offset_x, y0 + offset_y) of the first
\* occurrence of the label on the page as it was before any write of the
\* call, independent of the text written by earlier fields.
C8_PointsFromOriginalPage ==
    pc >= 4 =>
        /\ puntos["Nombre:"] = PointOnOriginal("Nombre:", campos.nombre, 15, 4)
        /\ puntos["Recinto:"] = PointOnOriginal("Recinto:", campos.recinto, 15, 7)
        /\ puntos["RUT:"] = PointOnOriginal("RUT:", campos.rut, 5, 4)
        /\ puntos["Fecha:"] = PointOnOriginal("Fecha:", campos.fecha_str, 20, 8)

====
